---- MODULE Spec2Model ----
(***************************************************************************)
(* SocketRobot: a remote-controlled differential-drive robot.              *)
(*                                                                         *)
(* Server/ServerSocket.py runs two threads over unguarded module globals:  *)
(* socketThread turns text messages into the four direction flags and the  *)
(* exit flag; robotThread polls the flags in an if/elif chain and drives   *)
(* the GPIO pins.  webapp/main.py is the websocket variant: one coroutine  *)
(* per connection updates a shared ControlState and calls the controller.  *)
(*                                                                         *)
(* The engine is modelled read by read: every evaluation of a global in    *)
(* the if/elif chain is one step, so that the socket thread's writes can   *)
(* fall between two reads of the same tick, as the interpreter allows.     *)
(***************************************************************************)
EXTENDS Naturals, Sequences, FiniteSets

VARIABLES
    \* ---- Server/ServerSocket.py: module globals (lines 8-13)
    forwardvar, backwardvar, leftvar, rightvar,
    previousstate,      \* 0 1 2 3 4 = none forward backward left right
    exit_program,
    \* ---- robotThread.run: position in the if/elif chain
    row,                \* 0 = at "if exit_program == 1"; 1..16 = elif being
                        \* evaluated; Stopped = after the break
    pos,                \* which operand of the elif's "and" is read next
    call,               \* GPIO routine invoked by the engine's latest step
    prevAtCall,         \* previousstate as the engine's latest step found it
    \* ---- socketThread.run: position in the accept / recv loops
    spc,
    \* ---- observers (history variables, each driven by one specification)
    exitCalls,          \* GPIO routines invoked since exit_program became 1
    ticks, ncalls,      \* completed passes of the chain, routines invoked
    watch, watched,     \* a flag tuple, and whether the flags held it
                        \* at some instant of the current pass
    decoded_data,       \* socketThread.run's local: the last decoded message
    pending,            \* messages the text client has yet to send
    dirty,              \* a flag changed since the current pass began
    wfrom, wraw,        \* latest control_ws step: its client, the text received
    wsent,              \* latest control_ws step: the message it sent
    issued,             \* the GPIO routine the engine invoked last
    \* ---- webapp/main.py
    state,              \* ControlState: forward, backward, left, right
    wpc,                \* per client: position of its control_ws coroutine
    wcall,              \* controller method invoked by the latest handler step
    wlast, wprev        \* the last two controller methods invoked

textVars == <<forwardvar, backwardvar, leftvar, rightvar, previousstate,
              exit_program, row, pos, call, prevAtCall, spc>>
flagVars == <<forwardvar, backwardvar, leftvar, rightvar>>
engineVars == <<previousstate, row, pos, call, prevAtCall>>
obsVars == <<exitCalls, ticks, ncalls, watch, watched, decoded_data,
             pending, dirty, wfrom, wraw, wsent, issued>>
webVars == <<state, wpc, wcall, wlast, wprev>>
vars == <<textVars, obsVars, webVars>>

--------------------------------------------------------------------------
(* Bounds of the observers.                                                *)
MaxTicks == 2
MaxCalls == 2
MaxExitCalls == 3

--------------------------------------------------------------------------
(* Server/ServerSocket.py: the arbitration chain                           *)

\* The sixteen elif branches of robotThread.run in source order.  pat is the
\* constant each of forwardvar, backwardvar, leftvar, rightvar is compared
\* with; op/p is the trailing test of previousstate; act is the GPIO routine
\* the body calls and np the value it assigns to previousstate.
Chain ==
    << [pat |-> <<0,0,0,0>>, op |-> "ne", p |-> 0, act |-> "clear",    np |-> 0],
       [pat |-> <<1,1,1,1>>, op |-> "ne", p |-> 0, act |-> "clear",    np |-> 0],
       [pat |-> <<0,0,1,1>>, op |-> "ne", p |-> 0, act |-> "clear",    np |-> 0],
       [pat |-> <<1,1,0,0>>, op |-> "ne", p |-> 0, act |-> "clear",    np |-> 0],
       [pat |-> <<1,0,0,0>>, op |-> "ne", p |-> 1, act |-> "forward",  np |-> 1],
       [pat |-> <<1,0,1,0>>, op |-> "eq", p |-> 3, act |-> "forward",  np |-> 1],
       [pat |-> <<1,0,0,1>>, op |-> "eq", p |-> 4, act |-> "forward",  np |-> 1],
       [pat |-> <<1,0,1,1>>, op |-> "ne", p |-> 1, act |-> "forward",  np |-> 1],
       [pat |-> <<0,1,0,0>>, op |-> "ne", p |-> 2, act |-> "backward", np |-> 2],
       [pat |-> <<0,1,1,0>>, op |-> "eq", p |-> 3, act |-> "backward", np |-> 2],
       [pat |-> <<0,1,0,1>>, op |-> "eq", p |-> 4, act |-> "backward", np |-> 2],
       [pat |-> <<0,1,1,1>>, op |-> "ne", p |-> 2, act |-> "backward", np |-> 2],
       [pat |-> <<0,0,1,0>>, op |-> "ne", p |-> 3, act |-> "left",     np |-> 3],
       [pat |-> <<1,1,1,0>>, op |-> "ne", p |-> 3, act |-> "left",     np |-> 3],
       [pat |-> <<0,0,0,1>>, op |-> "ne", p |-> 4, act |-> "right",    np |-> 4],
       [pat |-> <<1,1,0,1>>, op |-> "ne", p |-> 4, act |-> "right",    np |-> 4] >>

NRows == Len(Chain)
Stopped == NRows + 1
NFlags == Len(Chain[1].pat)

\* The global the k-th operand of an elif condition reads.
FlagRead(k) ==
    CASE k = 1 -> forwardvar
      [] k = 2 -> backwardvar
      [] k = 3 -> leftvar
      [] k = 4 -> rightvar

\* One flag comparison of an elif: "forwardvar == 1", "0 == leftvar", ...
\* (faulty variant: the comparison of rightvar is dropped)
FlagTestMut(rw, k) == k = 4 \/ FlagRead(k) = rw.pat[k]
FlagTest(rw, k) == FlagRead(k) = rw.pat[k]

\* The last operand of an elif: "previousstate != p" or "previousstate == p".
\* (faulty variant: the "!=" tests are dropped)
PrevTestMut(rw, prev) == rw.op = "eq" => prev = rw.p
PrevTest(rw, prev) == IF rw.op = "ne" THEN prev # rw.p ELSE prev = rw.p

\* The value the body of an elif assigns to previousstate.
\* (faulty variant: the "==" branches leave previousstate as tested)
NewPrevMut(rw) == IF rw.op = "eq" THEN rw.p ELSE rw.np
NewPrev(rw) == rw.np

\* cleanup(): clear() and previousstate = 0.
\* (faulty variant: previousstate is not reset)
cleanupMut == call' = "clear" /\ UNCHANGED previousstate
cleanup == call' = "clear" /\ previousstate' = 0

\* "if exit_program == 1" found false: fall into the elif chain.
EngineEnter ==
    /\ row = 0
    /\ exit_program # 1
    /\ row' = 1 /\ pos' = 1
    /\ call' = "none" /\ prevAtCall' = previousstate
    /\ UNCHANGED previousstate

\* "if exit_program == 1" found true: cleanup(), break.
EngineExit ==
    /\ row = 0
    /\ exit_program = 1
    /\ cleanup
    /\ row' = Stopped /\ pos' = 1
    /\ prevAtCall' = previousstate

\* A flag comparison of the current elif holds and more operands follow.
EngineRead ==
    /\ row \in 1..NRows
    /\ pos < NFlags
    /\ FlagTest(Chain[row], pos)
    /\ pos' = pos + 1
    /\ call' = "none" /\ prevAtCall' = previousstate
    /\ UNCHANGED <<row, previousstate>>

\* The current elif's condition is false (short-circuit at the first false
\* operand): go on to the next elif, or to the next pass after the last.
EngineSkip ==
    /\ row \in 1..NRows
    /\ \/ ~ FlagTest(Chain[row], pos)
       \/ pos = NFlags /\ ~ PrevTest(Chain[row], previousstate)
    /\ row' = IF row < NRows THEN row + 1 ELSE 0
    /\ pos' = 1
    /\ call' = "none" /\ prevAtCall' = previousstate
    /\ UNCHANGED previousstate

\* The current elif's condition is true: its body runs (the GPIO routine and
\* the assignment to previousstate, both private to this thread) and the
\* loop starts its next pass.
EngineFire ==
    /\ row \in 1..NRows
    /\ pos = NFlags
    /\ FlagTest(Chain[row], pos)
    /\ PrevTest(Chain[row], previousstate)
    /\ call' = Chain[row].act
    /\ previousstate' = NewPrev(Chain[row])
    /\ prevAtCall' = previousstate
    /\ row' = 0 /\ pos' = 1

EngineChain == EngineEnter \/ EngineRead \/ EngineSkip \/ EngineFire
EngineStep == EngineChain \/ EngineExit

--------------------------------------------------------------------------
(* Server/ServerSocket.py: the socket thread                               *)

KeyMsgs == {"'w' press", "'w' release", "'a' press", "'a' release",
            "'s' press", "'s' release", "'d' press", "'d' release"}
\* Decoded data that no branch matches: another key, a differently cased
\* exit, two events delivered by one recv.
OtherMsgs == {"'x' press", "EXIT", "'w' press'a' press"}
Msgs == KeyMsgs \cup {"exit"} \cup OtherMsgs

\* server.accept() returns: a client has connected.
Accept ==
    /\ spc = "accept"
    /\ spc' = "recv"
    /\ UNCHANGED <<flagVars, exit_program, engineVars>>

\* The if/elif chain over decoded_data.
\* (faulty variant: the 'a' press branch also clears forwardvar)
HandleMut(m) ==
    /\ forwardvar'  = (CASE m = "'w' press" -> 1 [] m = "'w' release" -> 0 [] m = "'a' press" -> 0 [] OTHER -> forwardvar)
    /\ leftvar'     = (CASE m = "'a' press" -> 1 [] m = "'a' release" -> 0 [] OTHER -> leftvar)
    /\ backwardvar' = (CASE m = "'s' press" -> 1 [] m = "'s' release" -> 0 [] OTHER -> backwardvar)
    /\ rightvar'    = (CASE m = "'d' press" -> 1 [] m = "'d' release" -> 0 [] OTHER -> rightvar)
    /\ exit_program' = IF m = "exit" THEN 1 ELSE exit_program
    /\ spc' = IF m = "exit" THEN "accept" ELSE spc
\* (faulty variant: the 'd' release branch clears leftvar)
HandleSlipMut(m) ==
    /\ forwardvar'  = (CASE m = "'w' press" -> 1 [] m = "'w' release" -> 0 [] OTHER -> forwardvar)
    /\ leftvar'     = (CASE m = "'a' press" -> 1 [] m = "'a' release" -> 0 [] m = "'d' release" -> 0 [] OTHER -> leftvar)
    /\ backwardvar' = (CASE m = "'s' press" -> 1 [] m = "'s' release" -> 0 [] OTHER -> backwardvar)
    /\ rightvar'    = (CASE m = "'d' press" -> 1 [] OTHER -> rightvar)
    /\ exit_program' = IF m = "exit" THEN 1 ELSE exit_program
    /\ spc' = IF m = "exit" THEN "accept" ELSE spc
Handle(m) ==
    /\ forwardvar'  = (CASE m = "'w' press" -> 1 [] m = "'w' release" -> 0 [] OTHER -> forwardvar)
    /\ leftvar'     = (CASE m = "'a' press" -> 1 [] m = "'a' release" -> 0 [] OTHER -> leftvar)
    /\ backwardvar' = (CASE m = "'s' press" -> 1 [] m = "'s' release" -> 0 [] OTHER -> backwardvar)
    /\ rightvar'    = (CASE m = "'d' press" -> 1 [] m = "'d' release" -> 0 [] OTHER -> rightvar)
    /\ exit_program' = IF m = "exit" THEN 1 ELSE exit_program
    \* exit: client_socket.close(), break out of the inner loop only
    /\ spc' = IF m = "exit" THEN "accept" ELSE spc

\* client_socket.recv(1024) returns data that decodes to m.
Recv(m) ==
    /\ spc = "recv"
    /\ Handle(m)
    /\ UNCHANGED engineVars

\* The peer closes its end: from now on recv returns b''.
PeerClose ==
    /\ spc = "recv"
    /\ spc' = "eof"
    /\ UNCHANGED <<flagVars, exit_program, engineVars>>

\* recv returns b'' at end of stream: '' matches no branch, the inner loop
\* goes round.
RecvEof ==
    /\ spc = "eof"
    /\ Handle("")
    /\ UNCHANGED engineVars

\* recv (connection reset) or decode (bytes that are not UTF-8) raises: the
\* bare except ends the thread if exit was requested, else accepts again.
Except ==
    /\ spc' = IF exit_program = 1 THEN "done" ELSE "accept"
    /\ UNCHANGED flagVars
RecvRaises ==
    /\ spc = "recv"
    /\ Except
    /\ UNCHANGED <<exit_program, engineVars>>

SocketStep == Accept \/ (\E m \in Msgs : Recv(m)) \/ PeerClose \/ RecvEof \/ RecvRaises

--------------------------------------------------------------------------
(* State after the module body has run and both threads have started.      *)

InitText ==
    /\ forwardvar = 0 /\ backwardvar = 0 /\ leftvar = 0 /\ rightvar = 0
    /\ previousstate = 0
    /\ exit_program = 0
    /\ row = 0 /\ pos = 1
    /\ call = "none" /\ prevAtCall = 0
    /\ spc = "accept"

\* Nothing received or sent yet on the websocket; no client script.
InitTurn ==
    /\ wfrom = 0
    /\ wraw = [kind |-> "none", type |-> "", key |-> "", action |-> "", cmd |-> ""]
    /\ wsent = [to |-> 0, type |-> "none", message |-> "",
                state |-> [forward |-> FALSE, backward |-> FALSE,
                           left |-> FALSE, right |-> FALSE]]

InitScenario == pending = {} /\ dirty = FALSE /\ issued = "none" /\ InitTurn

InitObs ==
    /\ exitCalls = <<>>
    /\ ticks = 0 /\ ncalls = 0
    /\ watch = <<>> /\ watched = FALSE
    /\ decoded_data = "none"
    /\ InitScenario

InitWeb ==
    /\ state = [forward |-> FALSE, backward |-> FALSE, left |-> FALSE, right |-> FALSE]
    /\ wpc = [c \in {1, 2} |-> "closed"]
    /\ wcall = "none" /\ wlast = "none" /\ wprev = "none"

Init == InitText /\ InitObs /\ InitWeb

--------------------------------------------------------------------------
(* webapp/main.py: the websocket variant                                   *)

Clients == {1, 2}
Flags == {"forward", "backward", "left", "right"}

\* Texts a client sends.  kind says what json.loads makes of the text: an
\* object ("object": its fields follow, "" for an absent one), another JSON
\* value such as 5 ("value"), or a JSONDecodeError ("text": cmd is the text).
WsMsg(kind, type, key, action, cmd) ==
    [kind |-> kind, type |-> type, key |-> key, action |-> action, cmd |-> cmd]
WsMsgs ==
    {WsMsg("object", "key", k, a, "") : k \in {"w", "a", "s", "d", "W", "x"}, a \in {"down", "up"}}
    \cup {WsMsg("object", "key", "w", "hold", "")}
    \cup {WsMsg("object", "command", "", "", c) :
            c \in {"forward", "backward", "left", "right", "stop", "STOP", "spin"}}
    \cup {WsMsg("object", "ping", "", "", "")}
    \cup {WsMsg("value", "", "", "", "")}
    \cup {WsMsg("text", "", "", "", c) : c \in {"not json", "forward"}}

\* str.lower() on the strings above.
Lower(s) == CASE s = "W" -> "w" [] s = "STOP" -> "stop" [] OTHER -> s

\* data after the try/except around json.loads(raw).
Decode(m) == IF m.kind = "text" THEN WsMsg("object", "command", "", "", m.cmd) ELSE m

\* apply_state(): the controller method the current flags select.
\* (faulty variant: forward is selected even when backward is set too)
ApplyStateMut(s) ==
    IF s.forward THEN "forward"
    ELSE IF s.backward /\ ~ s.forward THEN "backward"
    ELSE IF s.left /\ ~ s.right /\ ~ s.forward /\ ~ s.backward THEN "left"
    ELSE IF s.right /\ ~ s.left /\ ~ s.forward /\ ~ s.backward THEN "right"
    ELSE "stop"
ApplyState(s) ==
    IF s.forward /\ ~ s.backward THEN "forward"
    ELSE IF s.backward /\ ~ s.forward THEN "backward"
    ELSE IF s.left /\ ~ s.right /\ ~ s.forward /\ ~ s.backward THEN "left"
    ELSE IF s.right /\ ~ s.left /\ ~ s.forward /\ ~ s.backward THEN "right"
    ELSE "stop"

\* The controller is invoked with method cmd.
Invoke(cmd) == wcall' = cmd /\ wlast' = cmd /\ wprev' = wlast
NoInvoke == wcall' = "none" /\ UNCHANGED <<wlast, wprev>>

\* The "key" branch: one flag takes is_down, or none for another key.
KeyUpdate(s, data) ==
    LET key == Lower(data.key)
        is_down == data.action = "down"
    IN  CASE key = "w" -> [s EXCEPT !.forward = is_down]
          [] key = "s" -> [s EXCEPT !.backward = is_down]
          [] key = "a" -> [s EXCEPT !.left = is_down]
          [] key = "d" -> [s EXCEPT !.right = is_down]
          [] OTHER -> s

\* The "command" branch: the four flags are assigned together.
\* (faulty variant: the named flag is set and the others are kept)
CommandUpdateMut(s, data) ==
    LET cmd == Lower(data.cmd)
    IN  IF cmd \in Flags
        THEN [s EXCEPT ![cmd] = TRUE]
        ELSE IF cmd = "stop" THEN [f \in Flags |-> FALSE] ELSE s
CommandUpdate(s, data) ==
    LET cmd == Lower(data.cmd)
    IN  IF cmd \in Flags
        THEN [f \in Flags |-> f = cmd]
        ELSE IF cmd = "stop" THEN [f \in Flags |-> FALSE] ELSE s

\* await ws.accept()
WsAccept(c) ==
    /\ wpc[c] \in {"closed", "failed"}
    /\ wpc' = [wpc EXCEPT ![c] = "accepted"]
    /\ NoInvoke
    /\ UNCHANGED state

\* await ws.send_json({"type": "hello", ...})
WsHello(c) ==
    /\ wpc[c] = "accepted"
    /\ wpc' = [wpc EXCEPT ![c] = "open"]
    /\ NoInvoke
    /\ UNCHANGED state

\* One turn of the receive loop: receive_text() returned m.
WsReceive(c, m) ==
    /\ wpc[c] = "open"
    /\ IF m.kind = "value"
       THEN \* data.get raises AttributeError, which control_ws does not catch
            /\ wpc' = [wpc EXCEPT ![c] = "failed"]
            /\ NoInvoke
            /\ UNCHANGED state
       ELSE LET data == Decode(m) IN
            /\ UNCHANGED wpc
            /\ CASE data.type = "key" ->
                      /\ state' = KeyUpdate(state, data)
                      /\ Invoke(ApplyState(state'))
                 [] data.type = "command" ->
                      /\ state' = CommandUpdate(state, data)
                      /\ Invoke(ApplyState(state'))
                 [] OTHER ->
                      /\ UNCHANGED state
                      /\ NoInvoke

\* receive_text() raises WebSocketDisconnect: "Stop on disconnect".
\* (faulty variant: the flags are not reset)
OnDisconnectMut == state' = state
OnDisconnect == state' = [f \in Flags |-> FALSE]
\* (faulty variant: apply_state() is not called after the reset)
WsDisconnectMut(c) ==
    /\ wpc[c] = "open"
    /\ wpc' = [wpc EXCEPT ![c] = "closed"]
    /\ OnDisconnect
    /\ NoInvoke
WsDisconnect(c) ==
    /\ wpc[c] = "open"
    /\ wpc' = [wpc EXCEPT ![c] = "closed"]
    /\ OnDisconnect
    /\ Invoke(ApplyState(state'))

--------------------------------------------------------------------------
(* Specifications                                                          *)

\* An engine step leaves the socket thread's variables alone, a socket step
\* the engine's (each action above says so for its own thread's part).
\* (faulty variant: each engine step also clears forwardvar)
RunMut(A) ==
    /\ A /\ forwardvar' = 0
    /\ UNCHANGED <<backwardvar, leftvar, rightvar, exit_program, spc, webVars>>
Run(A) == A /\ UNCHANGED <<flagVars, exit_program, spc, webVars>>
Net(A) == A /\ UNCHANGED webVars
Web(A) == A /\ UNCHANGED textVars

\* Observer of Spec: the GPIO routines invoked once exit_program is 1.
LogExitCalls ==
    /\ exitCalls' = IF exit_program = 1 /\ call' # "none" /\ Len(exitCalls) < MaxExitCalls
                    THEN Append(exitCalls, call')
                    ELSE exitCalls
    /\ UNCHANGED <<ticks, ncalls, watch, watched, decoded_data,
                   pending, dirty, wfrom, wraw, wsent, issued>>

\* The text-protocol server: both threads, every interleaving of their steps.
Next ==
    \/ Run(EngineEnter) /\ LogExitCalls
    \/ Run(EngineRead) /\ LogExitCalls
    \/ Run(EngineSkip) /\ LogExitCalls
    \/ Run(EngineFire) /\ LogExitCalls
    \/ Run(EngineExit) /\ LogExitCalls
    \/ Net(Accept) /\ UNCHANGED obsVars
    \/ \E m \in Msgs : Net(Recv(m)) /\ UNCHANGED obsVars
    \/ Net(PeerClose) /\ UNCHANGED obsVars
    \/ Net(RecvEof) /\ UNCHANGED obsVars
    \/ Net(RecvRaises) /\ UNCHANGED obsVars

Spec == Init /\ [][Next]_vars

\* The same under the scheduling the interpreter gives two runnable threads:
\* the engine thread, which never blocks, keeps taking steps, and so does
\* the socket thread while recv returns at once (end of stream).  A client
\* connecting, sending or disconnecting is the environment's choice.
EngineNext == (Run(EngineStep) /\ LogExitCalls)
EofNext == (Net(RecvEof) /\ UNCHANGED obsVars)
SpecLive == Spec /\ WF_vars(EngineNext) /\ WF_vars(EofNext)

\* One pass after another of the chain over flags nobody writes, from every
\* flag combination and every previous command, exit_program clear.
InitTick ==
    /\ forwardvar \in {0, 1} /\ backwardvar \in {0, 1}
    /\ leftvar \in {0, 1} /\ rightvar \in {0, 1}
    /\ previousstate \in 0..4
    /\ exit_program = 0
    /\ row = 0 /\ pos = 1
    /\ call = "none" /\ prevAtCall = previousstate
    /\ spc = "recv"
    /\ InitObs /\ InitWeb

Min(a, b) == IF a < b THEN a ELSE b

\* Observer of SpecTick: passes completed and GPIO routines invoked.
CountTicks ==
    /\ ticks' = IF row # 0 /\ row' = 0 THEN Min(ticks + 1, MaxTicks) ELSE ticks
    /\ ncalls' = IF call' # "none" THEN Min(ncalls + 1, MaxCalls) ELSE ncalls
    /\ UNCHANGED <<exitCalls, watch, watched, decoded_data,
                   pending, dirty, wfrom, wraw, wsent, issued>>

TickNext ==
    \/ Run(EngineEnter) /\ CountTicks
    \/ Run(EngineRead) /\ CountTicks
    \/ Run(EngineSkip) /\ CountTicks
    \/ Run(EngineFire) /\ CountTicks

SpecTick == InitTick /\ [][TickNext]_vars

\* Observer of SpecSnap: watch is any one flag tuple; watched says whether
\* the four globals held it together at some instant of the current pass
\* (a pass lasts from the end of the one before to its own last read).
FlagTuple == <<forwardvar, backwardvar, leftvar, rightvar>>

InitSnap ==
    /\ InitText /\ InitWeb
    /\ exitCalls = <<>> /\ ticks = 0 /\ ncalls = 0 /\ decoded_data = "none"
    /\ watch \in {Chain[i].pat : i \in 1..NRows}
    /\ watched = (FlagTuple = watch)
    /\ InitScenario

Watch ==
    /\ watched' = IF row # 0 /\ row' = 0 THEN FlagTuple' = watch
                  ELSE watched \/ FlagTuple' = watch
    /\ UNCHANGED <<exitCalls, ticks, ncalls, watch, decoded_data,
                   pending, dirty, wfrom, wraw, wsent, issued>>

SnapNext ==
    \/ Run(EngineEnter) /\ Watch
    \/ Run(EngineRead) /\ Watch
    \/ Run(EngineSkip) /\ Watch
    \/ Run(EngineFire) /\ Watch
    \/ Run(EngineExit) /\ Watch
    \/ Net(Accept) /\ Watch
    \/ \E m \in Msgs : Net(Recv(m)) /\ Watch
    \/ Net(PeerClose) /\ Watch
    \/ Net(RecvEof) /\ Watch
    \/ Net(RecvRaises) /\ Watch

SpecSnap == InitSnap /\ [][SnapNext]_vars

\* Observer of SpecSock: decoded_data, the text the socket thread decoded last.
Decoded(m) ==
    /\ decoded_data' = m
    /\ UNCHANGED <<exitCalls, ticks, ncalls, watch, watched,
                   pending, dirty, wfrom, wraw, wsent, issued>>

SockNext ==
    \/ Run(EngineEnter) /\ UNCHANGED obsVars
    \/ Run(EngineRead) /\ UNCHANGED obsVars
    \/ Run(EngineSkip) /\ UNCHANGED obsVars
    \/ Run(EngineFire) /\ UNCHANGED obsVars
    \/ Run(EngineExit) /\ UNCHANGED obsVars
    \/ Net(Accept) /\ UNCHANGED obsVars
    \/ \E m \in Msgs : Net(Recv(m)) /\ Decoded(m)
    \/ Net(PeerClose) /\ UNCHANGED obsVars
    \/ Net(RecvEof) /\ Decoded("")
    \/ Net(RecvRaises) /\ UNCHANGED obsVars

SpecSock == Init /\ [][SockNext]_vars

\* The websocket server: one control_ws coroutine per client, interleaved at
\* their awaits.
WebNext ==
    \/ \E c \in Clients : Web(WsAccept(c)) /\ UNCHANGED obsVars
    \/ \E c \in Clients : Web(WsHello(c)) /\ UNCHANGED obsVars
    \/ \E c \in Clients, m \in WsMsgs : Web(WsReceive(c, m)) /\ UNCHANGED obsVars
    \/ \E c \in Clients : Web(WsDisconnect(c)) /\ UNCHANGED obsVars

SpecWeb == Init /\ [][WebNext]_vars

\* Connections coming and going on both transports: the socket thread of the
\* text-protocol server and the websocket handlers.
ReconnNext ==
    \/ Net(Accept) /\ UNCHANGED obsVars
    \/ \E m \in Msgs : Net(Recv(m)) /\ UNCHANGED obsVars
    \/ Net(PeerClose) /\ UNCHANGED obsVars
    \/ Net(RecvEof) /\ UNCHANGED obsVars
    \/ Net(RecvRaises) /\ UNCHANGED obsVars
    \/ \E c \in Clients : Web(WsAccept(c)) /\ UNCHANGED obsVars
    \/ \E c \in Clients : Web(WsHello(c)) /\ UNCHANGED obsVars
    \/ \E c \in Clients, m \in WsMsgs : Web(WsReceive(c, m)) /\ UNCHANGED obsVars
    \/ \E c \in Clients : Web(WsDisconnect(c)) /\ UNCHANGED obsVars

SpecReconn == Init /\ [][ReconnNext]_vars

\* What the latest control_ws step sent with send_json, if anything; the
\* state field is of use in a "hello" and a "state" message only.
Silent ==
    wsent' = [to |-> 0, type |-> "none", message |-> "",
              state |-> [f \in Flags |-> FALSE]]
SendFlags(c, type) ==
    wsent' = [to |-> c, type |-> type, message |-> "", state |-> state']
SendError(c) ==
    wsent' = [to |-> c, type |-> "error", message |-> "unknown message",
              state |-> [f \in Flags |-> FALSE]]

\* The reply that ends one turn of the receive loop (lines 183, 198, 201).
Reply(c, m) ==
    IF m.kind = "value" THEN Silent
    ELSE IF Decode(m).type \in {"key", "command"} THEN SendFlags(c, "state")
    ELSE SendError(c)

\* Observer of SpecTurn: the client the latest control_ws step served and
\* the text it received, if it received one.
Served(c, m) ==
    /\ wfrom' = c /\ wraw' = m
    /\ UNCHANGED <<exitCalls, ticks, ncalls, watch, watched, decoded_data,
                   pending, dirty, issued>>
NoText == WsMsg("none", "", "", "", "")

\* The websocket variant with what each step receives and sends.
TurnNext ==
    \/ \E c \in Clients : Web(WsAccept(c)) /\ Silent /\ Served(c, NoText)
    \/ \E c \in Clients : Web(WsHello(c)) /\ SendFlags(c, "hello") /\ Served(c, NoText)
    \/ \E c \in Clients, m \in WsMsgs : Web(WsReceive(c, m)) /\ Reply(c, m) /\ Served(c, m)
    \/ \E c \in Clients : Web(WsDisconnect(c)) /\ Silent /\ Served(c, NoText)

SpecTurn == Init /\ [][TurnNext]_vars

\* Observer of the client scripts: the text client sends m, one of the
\* messages it had yet to send.
Sends(m) ==
    /\ m \in pending
    /\ pending' = pending \ {m}
    /\ UNCHANGED <<exitCalls, ticks, ncalls, watch, watched, decoded_data,
                   dirty, wfrom, wraw, wsent, issued>>

\* The four globals of the text server as a ControlState.
TextFlags ==
    [f \in Flags |-> CASE f = "forward" -> forwardvar = 1
                       [] f = "backward" -> backwardvar = 1
                       [] f = "left" -> leftvar = 1
                       [] f = "right" -> rightvar = 1]

\* What Client/ClientSocket.py sends when the key of a flag goes up.
ReleaseOf(f) ==
    CASE f = "forward" -> "'w' release" [] f = "backward" -> "'s' release"
      [] f = "left" -> "'a' release" [] f = "right" -> "'d' release"

\* Both servers hold the same flags, any of the 16 combinations: the text
\* server has a client connected that will press w and then release every
\* other key it holds; the websocket server has client 1 connected and has
\* last invoked what those flags select.
InitEquiv ==
    /\ state \in [Flags -> BOOLEAN]
    /\ forwardvar = (IF state.forward THEN 1 ELSE 0)
    /\ backwardvar = (IF state.backward THEN 1 ELSE 0)
    /\ leftvar = (IF state.left THEN 1 ELSE 0)
    /\ rightvar = (IF state.right THEN 1 ELSE 0)
    /\ previousstate = 0 /\ exit_program = 0
    /\ row = 0 /\ pos = 1 /\ call = "none" /\ prevAtCall = 0
    /\ spc = "recv"
    /\ wpc = [c \in Clients |-> IF c = 1 THEN "open" ELSE "closed"]
    /\ wcall = "none"
    /\ wlast = ApplyState(state)
    /\ wprev \in {ApplyState([state EXCEPT ![x] = FALSE]) : x \in Flags}
    /\ pending = {"'w' press"} \cup {ReleaseOf(f) : f \in {g \in Flags \ {"forward"} : state[g]}}
    /\ exitCalls = <<>> /\ ticks = 0 /\ ncalls = 0
    /\ watch = <<>> /\ watched = FALSE /\ decoded_data = "none"
    /\ dirty = FALSE /\ issued = "none" /\ InitTurn

\* The text server handles the press and then the releases; the websocket
\* server handles {"type": "command", "cmd": "forward"}.
EquivNext ==
    \/ \E m \in KeyMsgs :
          /\ m = "'w' press" \/ "'w' press" \notin pending
          /\ Net(Recv(m)) /\ Sends(m)
    \/ Web(WsReceive(1, WsMsg("object", "command", "", "", "forward"))) /\ UNCHANGED obsVars

SpecEquiv == InitEquiv /\ [][EquivNext]_vars

\* Scenario: from the initial state the text client presses w, and sends
\* nothing else; the engine runs throughout.
InitPress ==
    /\ InitText /\ InitWeb
    /\ exitCalls = <<>> /\ ticks = 0 /\ ncalls = 0
    /\ watch = <<>> /\ watched = FALSE /\ decoded_data = "none"
    /\ pending = {"'w' press"} /\ dirty = FALSE /\ issued = "none" /\ InitTurn

PressEngine ==
    \/ Run(EngineEnter) /\ CountTicks
    \/ Run(EngineRead) /\ CountTicks
    \/ Run(EngineSkip) /\ CountTicks
    \/ Run(EngineFire) /\ CountTicks

PressNext ==
    \/ PressEngine
    \/ Net(Accept) /\ UNCHANGED obsVars
    \/ \E m \in KeyMsgs : Net(Recv(m)) /\ Sends(m)

\* The engine thread is never starved: "while True" with no blocking call.
SpecPress == InitPress /\ [][PressNext]_vars /\ WF_vars(PressEngine)

\* Observer of SpecHold: dirty says whether a flag has changed since the
\* pass in progress began, that is since "if exit_program == 1" was last
\* found false.
PassBegins ==
    /\ dirty' = FALSE
    /\ UNCHANGED <<exitCalls, ticks, ncalls, watch, watched, decoded_data,
                   pending, wfrom, wraw, wsent, issued>>
FlagWritten ==
    /\ dirty' = (dirty \/ FlagTuple' # FlagTuple)
    /\ UNCHANGED <<exitCalls, ticks, ncalls, watch, watched, decoded_data,
                   pending, wfrom, wraw, wsent, issued>>

\* The text-protocol server, both threads, with that observer.
HoldNext ==
    \/ Run(EngineEnter) /\ PassBegins
    \/ Run(EngineRead) /\ UNCHANGED obsVars
    \/ Run(EngineSkip) /\ UNCHANGED obsVars
    \/ Run(EngineFire) /\ UNCHANGED obsVars
    \/ Run(EngineExit) /\ UNCHANGED obsVars
    \/ Net(Accept) /\ UNCHANGED obsVars
    \/ \E m \in Msgs : Net(Recv(m)) /\ FlagWritten
    \/ Net(PeerClose) /\ UNCHANGED obsVars
    \/ Net(RecvEof) /\ UNCHANGED obsVars
    \/ Net(RecvRaises) /\ UNCHANGED obsVars

SpecHold == Init /\ [][HoldNext]_vars

\* Observer of SpecMotion: issued, the GPIO routine the engine invoked
\* last (clear for cleanup), "none" while it has invoked none.
LogIssued ==
    /\ issued' = IF call' # "none" THEN call' ELSE issued
    /\ UNCHANGED <<exitCalls, ticks, ncalls, watch, watched, decoded_data,
                   pending, dirty, wfrom, wraw, wsent>>

\* The text-protocol server, both threads, with that observer.
MotionEngine ==
    \/ Run(EngineEnter) /\ LogIssued
    \/ Run(EngineRead) /\ LogIssued
    \/ Run(EngineSkip) /\ LogIssued
    \/ Run(EngineFire) /\ LogIssued
    \/ Run(EngineExit) /\ LogIssued

MotionNext ==
    \/ MotionEngine
    \/ Net(Accept) /\ UNCHANGED obsVars
    \/ \E m \in Msgs : Net(Recv(m)) /\ UNCHANGED obsVars
    \/ Net(PeerClose) /\ UNCHANGED obsVars
    \/ Net(RecvEof) /\ UNCHANGED obsVars
    \/ Net(RecvRaises) /\ UNCHANGED obsVars

SpecMotion == Init /\ [][MotionNext]_vars

\* The same with the engine thread never starved.
SpecMotionLive == SpecMotion /\ WF_vars(MotionEngine)

--------------------------------------------------------------------------
(* Properties                                                              *)

\* Line 8 of ServerSocket.py: "0 1 2 3 4 none forward backward left right".
CommandCode(name) ==
    CASE name = "None" -> 0 [] name = "Forward" -> 1 [] name = "Backward" -> 2
      [] name = "Left" -> 3 [] name = "Right" -> 4
\* The GPIO routine behind each Actuator method (stop is clear()).
Routine(action) == IF action = "stop" THEN "clear" ELSE action
RoutineCode(r) ==
    CASE r = "clear" -> 0 [] r = "forward" -> 1 [] r = "backward" -> 2
      [] r = "left" -> 3 [] r = "right" -> 4

\* The priority transition table as the specification prints it.
TransitionTable ==
    << [f |-> 0, b |-> 0, l |-> 0, r |-> 0, rel |-> "#", prev |-> "None",     action |-> "stop",     new |-> "None"],
       [f |-> 1, b |-> 1, l |-> 1, r |-> 1, rel |-> "#", prev |-> "None",     action |-> "stop",     new |-> "None"],
       [f |-> 0, b |-> 0, l |-> 1, r |-> 1, rel |-> "#", prev |-> "None",     action |-> "stop",     new |-> "None"],
       [f |-> 1, b |-> 1, l |-> 0, r |-> 0, rel |-> "#", prev |-> "None",     action |-> "stop",     new |-> "None"],
       [f |-> 1, b |-> 0, l |-> 0, r |-> 0, rel |-> "#", prev |-> "Forward",  action |-> "forward",  new |-> "Forward"],
       [f |-> 1, b |-> 0, l |-> 1, r |-> 0, rel |-> "=", prev |-> "Left",     action |-> "forward",  new |-> "Forward"],
       [f |-> 1, b |-> 0, l |-> 0, r |-> 1, rel |-> "=", prev |-> "Right",    action |-> "forward",  new |-> "Forward"],
       [f |-> 1, b |-> 0, l |-> 1, r |-> 1, rel |-> "#", prev |-> "Forward",  action |-> "forward",  new |-> "Forward"],
       [f |-> 0, b |-> 1, l |-> 0, r |-> 0, rel |-> "#", prev |-> "Backward", action |-> "backward", new |-> "Backward"],
       [f |-> 0, b |-> 1, l |-> 1, r |-> 0, rel |-> "=", prev |-> "Left",     action |-> "backward", new |-> "Backward"],
       [f |-> 0, b |-> 1, l |-> 0, r |-> 1, rel |-> "=", prev |-> "Right",    action |-> "backward", new |-> "Backward"],
       [f |-> 0, b |-> 1, l |-> 1, r |-> 1, rel |-> "#", prev |-> "Backward", action |-> "backward", new |-> "Backward"],
       [f |-> 0, b |-> 0, l |-> 1, r |-> 0, rel |-> "#", prev |-> "Left",     action |-> "left",     new |-> "Left"],
       [f |-> 1, b |-> 1, l |-> 1, r |-> 0, rel |-> "#", prev |-> "Left",     action |-> "left",     new |-> "Left"],
       [f |-> 0, b |-> 0, l |-> 0, r |-> 1, rel |-> "#", prev |-> "Right",    action |-> "right",    new |-> "Right"],
       [f |-> 1, b |-> 1, l |-> 0, r |-> 1, rel |-> "#", prev |-> "Right",    action |-> "right",    new |-> "Right"] >>

TableMatches(t, flags, prev) ==
    /\ <<t.f, t.b, t.l, t.r>> = flags
    /\ IF t.rel = "=" THEN prev = CommandCode(t.prev) ELSE prev # CommandCode(t.prev)

\* What the first matching row designates for (flags, prev): the routine
\* called ("none" when no row matches) and the new previous command.
TableOutcome(flags, prev) ==
    LET hits == {i \in DOMAIN TransitionTable : TableMatches(TransitionTable[i], flags, prev)}
    IN  IF hits = {}
        THEN [routine |-> "none", prev |-> prev]
        ELSE LET i == CHOOSE i \in hits : \A j \in hits : i <= j
             IN  [routine |-> Routine(TransitionTable[i].action),
                  prev |-> CommandCode(TransitionTable[i].new)]

\* C1: a pass of the chain over flags that nobody writes, started with
\* previous command prevAtCall, ends having made exactly the call and
\* recorded exactly the previous command that the first matching row of the
\* transition table designates; no call and no change when no row matches.
C1_PassFollowsTable ==
    (row = 0 /\ ticks >= 1) =>
        /\ call = TableOutcome(FlagTuple, prevAtCall).routine
        /\ previousstate = TableOutcome(FlagTuple, prevAtCall).prev

\* A pass has ended in rule 6: forward and left held, arriving from Left.
C1_Witness ==
    /\ row = 0 /\ ticks >= 1
    /\ FlagTuple = <<1, 0, 1, 0>> /\ prevAtCall = 3
    /\ call = "forward" /\ previousstate = 1

\* C2: whenever a branch of the chain has called a GPIO routine, the
\* command of that routine differs from the previous command the branch
\* found recorded; only cleanup's clear(), after which the engine has
\* stopped, may repeat it.
C2_NoRedundantCall ==
    (call # "none" /\ row # Stopped) => RoutineCode(call) # prevAtCall

\* A branch has stopped the robot that was going forward.
C2_Witness == call = "clear" /\ row = 0 /\ prevAtCall = 1

\* C3: the flag tuple a firing branch matched (its four constants: each
\* operand was read equal to its constant) was held by the four globals
\* together at some instant of that pass.
C3_ConsistentSnapshot ==
    [][(row \in 1..NRows /\ call' # "none" /\ Chain[row].pat = watch) => watched]_vars

StopsAfterExit == Cardinality({i \in DOMAIN exitCalls : exitCalls[i] = "clear"})

\* C4: once exit has been received the engine stops the Actuator exactly
\* once, and makes no call after that stop.
C4_OneStopAfterExit ==
    /\ StopsAfterExit <= 1
    /\ row = Stopped => (StopsAfterExit = 1 /\ exitCalls[Len(exitCalls)] = "clear")

\* C5: the pass that finds exit_program set calls clear(), records previous
\* command None and leaves the loop for good, whatever the flags and the
\* previous command; and once exit_program is set the engine gets there.
C5_ShutdownPass ==
    /\ [][(row = 0 /\ exit_program = 1 /\ row' # row) =>
            (call' = "clear" /\ previousstate' = 0 /\ row' = Stopped)]_vars
    /\ [][row = Stopped => (row' = Stopped /\ call' = call /\ previousstate' = previousstate)]_vars
    /\ (exit_program = 1) ~> (row = Stopped /\ previousstate = 0)

\* The engine has stopped from previous command Left with keys still held.
C5_Witness == row = Stopped /\ prevAtCall = 3 /\ FlagTuple = <<1, 0, 1, 0>>

\* C6: over flags that stay as they are, all passes together make at most
\* one call, and only the first pass makes it.
C6_Idempotent ==
    /\ ncalls <= 1
    /\ call # "none" => ticks = 1

\* Two passes and more have run, the first of which made a call.
C6_Witness == ticks >= 2 /\ ncalls = 1 /\ row = 0

\* C7: the websocket handler never invokes the controller with the method
\* it invoked last.
C7_NoRepeatedInvoke == wcall # "none" => wcall # wprev

\* The flag and the value each key message stands for: w forward, s
\* backward, a left, d right; 1 on press, 0 on release.
KeyEvent(m) ==
    CASE m = "'w' press" -> <<1, 1>> [] m = "'w' release" -> <<1, 0>>
      [] m = "'s' press" -> <<2, 1>> [] m = "'s' release" -> <<2, 0>>
      [] m = "'a' press" -> <<3, 1>> [] m = "'a' release" -> <<3, 0>>
      [] m = "'d' press" -> <<4, 1>> [] m = "'d' release" -> <<4, 0>>

\* The socket thread's step is one turn of its receive loop on data m.
Received(m) ==
    /\ decoded_data' = m
    /\ Net(Recv(m)) \/ (m = "" /\ Net(RecvEof))

\* C8: a turn of the receive loop on a key message sets the one mapped flag
\* and leaves the other flags, the previous command and exit_program as
\* they were; on data that is neither a key message nor exit it changes
\* nothing of the program's state.
C8_KeyEventFrame ==
    [][\A m \in Msgs \cup {""} :
         Received(m) =>
            IF m \in KeyMsgs
            THEN /\ FlagTuple' = [FlagTuple EXCEPT ![KeyEvent(m)[1]] = KeyEvent(m)[2]]
                 /\ previousstate' = previousstate
                 /\ exit_program' = exit_program
            ELSE m # "exit" => UNCHANGED textVars]_vars

\* 'a' was pressed with forward held and the robot going forward.
C8_Witness ==
    /\ decoded_data = "'a' press"
    /\ FlagTuple = <<1, 0, 1, 0>> /\ previousstate = 1

NoFlags == [f \in Flags |-> FALSE]
TextFlagsKept == (spc = "accept" \/ spc' = "accept") => FlagTuple' = FlagTuple
NoneOpen == \A c \in Clients : wpc[c] # "open"

C10_DropRecovered == (spc = "eof" /\ exit_program = 0) ~> (spc = "accept")

\* C11: a structured command whose cmd is forward, backward, left or right
\* leaves exactly the named flag true and the other three false, and stop
\* leaves all four false, whatever the flags were before it.
C11_CommandOverrides ==
    (wraw.kind = "object" /\ wraw.type = "command") =>
        /\ wraw.cmd \in Flags => state = [f \in Flags |-> f = wraw.cmd]
        /\ wraw.cmd = "stop" => state = [f \in Flags |-> FALSE]

\* "left" has just overridden flags that selected forward.
C11_Witness ==
    /\ wraw = WsMsg("object", "command", "", "", "left")
    /\ wprev = "forward"
    /\ state = [f \in Flags |-> f = "left"]

\* C12: from any flags, the flags after {"type": "command", "cmd": "forward"}
\* are forward alone, the same flags the text server holds after a 'w' press
\* followed by a release of every other key that was held.
C12_CommandEqualsKeys ==
    /\ wcall # "none" => state = [f \in Flags |-> f = "forward"]
    /\ (wcall # "none" /\ pending = {}) => TextFlags = state

\* Both runs are over, having started from flags that selected backward.
C12_Witness ==
    /\ pending = {} /\ TextFlags = state
    /\ wcall = "forward" /\ wprev = "backward"

\* The payloads C13 lists as malformed: text that is not JSON (and is not
\* one of the simple text commands), JSON that is not an object, an object
\* of unknown type, a key message with another key or another action, a
\* command with an unknown cmd.
Malformed(m) ==
    \/ m.kind = "text" /\ Lower(m.cmd) \notin Flags \cup {"stop"}
    \/ m.kind = "value"
    \/ m.kind = "object" /\ m.type \notin {"key", "command"}
    \/ m.kind = "object" /\ m.type = "key"
         /\ (Lower(m.key) \notin {"w", "a", "s", "d"} \/ m.action \notin {"down", "up"})
    \/ m.kind = "object" /\ m.type = "command" /\ Lower(m.cmd) \notin Flags \cup {"stop"}

\* C13: a malformed payload leaves the four flags as they were, and the
\* handler that received it goes on receiving on its connection.
C13_MalformedIgnored ==
    [][Malformed(wraw') => (state' = state /\ wpc'[wfrom'] = "open")]_vars

\* C14: the first message sent on a connection is a hello with the current
\* flags; after that each received message gets exactly one reply on its
\* connection, a state message with the flags after the update when it is
\* an accepted key or command message, and an error message "unknown
\* message" when it is not (unknown cmd and non-JSON text included).
C14_OneReplyEach ==
    /\ (wraw = NoText /\ wfrom # 0 /\ wpc[wfrom] = "open") =>
          wsent = [to |-> wfrom, type |-> "hello", message |-> "", state |-> state]
    /\ wsent.type \in {"state", "error"} => wraw # NoText
    /\ wraw # NoText =>
          /\ wsent.to = wfrom
          /\ IF Malformed(wraw)
             THEN wsent.type = "error" /\ wsent.message = "unknown message"
             ELSE wsent.type = "state" /\ wsent.state = state

\* C15: from the initial state, once a single 'w' press has been handled
\* and nothing else is sent, the engine eventually calls forward(); it calls
\* it once, calls no other routine, and the flags are forward alone.
C15_SinglePress ==
    /\ [](ncalls <= 1 /\ (call # "none" => call = "forward"))
    /\ [](ncalls = 1 => previousstate = 1)
    /\ [](pending = {} => FlagTuple = <<1, 0, 0, 0>>)
    /\ (pending = {}) ~> (ncalls = 1)

\* The engine has just called forward() for the press.
C15_Witness ==
    /\ pending = {} /\ FlagTuple = <<1, 0, 0, 0>>
    /\ call = "forward" /\ ncalls = 1 /\ previousstate = 1

\* C16: a pass of the chain during which the flags stay as they are, and for
\* which no row of the transition table matches the flags and the previous
\* command, ends without a call and with the previous command unchanged; so
\* it is for every pass while forward and left are held and the previous
\* command is Forward.
C16_HoldOnNoMatch ==
    [][(/\ row \in 1..NRows /\ row' = 0
        /\ ~ dirty
        /\ TableOutcome(FlagTuple, previousstate).routine = "none")
       => (call' = "none" /\ previousstate' = previousstate)]_vars

\* A whole pass has gone by with forward and left held after forward() was
\* called: nothing was called, the previous command is still Forward.
C16_Witness ==
    /\ FlagTuple = <<1, 0, 1, 0>> /\ previousstate = 1
    /\ row = 0 /\ ~ dirty /\ call = "none"

\* C17: the socket thread alone writes the four flags and exit_program, and
\* it neither writes previousstate nor calls a GPIO routine; the engine
\* thread alone writes previousstate and calls the routines, and it writes
\* neither a flag nor exit_program.  (The engine's steps are those that move
\* its position in the chain.)
C17_RoleSeparation ==
    [][IF <<row, pos>>' # <<row, pos>>
       THEN FlagTuple' = FlagTuple /\ exit_program' = exit_program
       ELSE previousstate' = previousstate /\ call' = call]_vars

\* Both threads have done their writing: the socket thread set forwardvar
\* and then exit_program, the engine called forward() and then cleanup().
C17_Witness ==
    /\ forwardvar = 1 /\ exit_program = 1
    /\ row = Stopped /\ call = "clear" /\ prevAtCall = 1 /\ previousstate = 0

\* C18: one connection is serviced at a time: a message of one client is
\* never applied to the flags right after a message of another client whose
\* connection is still open.
C18_OneConnectionServed ==
    [][(wraw # NoText /\ wraw' # NoText /\ wfrom' # wfrom) => wpc'[wfrom] # "open"]_vars

\* The flags that are set.
Held == {f \in Flags : state[f]}

\* C19: the controller method the websocket server invokes is a function of
\* the current flags alone: forward iff forward is set and backward is not,
\* backward iff backward is set and forward is not, left iff left is the
\* only flag set, right iff right is the only flag set, stop otherwise.
C19_ApplyStateByFlags ==
    wcall # "none" =>
        /\ wcall \in Flags \cup {"stop"}
        /\ wcall = "forward" <=> ("forward" \in Held /\ "backward" \notin Held)
        /\ wcall = "backward" <=> ("backward" \in Held /\ "forward" \notin Held)
        /\ wcall = "left" <=> Held = {"left"}
        /\ wcall = "right" <=> Held = {"right"}

\* forward() was invoked with left and right set as well.
C19_Witness == wcall = "forward" /\ Held = {"forward", "left", "right"}

\* C20: when a websocket client disconnects, all four flags become false and
\* the controller is told to stop: right after any disconnect the last
\* method invoked is stop, whatever keys were held.
C20_StopOnDisconnect ==
    [][\A c \in Clients :
          (wpc[c] = "open" /\ wpc'[c] = "closed") =>
              /\ Held' = {}
              /\ wcall' = "stop" /\ wlast' = "stop"]_vars

\* The last client has disconnected while the flags selected right.
C20_Witness ==
    /\ \A c \in Clients : wpc[c] = "closed"
    /\ wcall = "stop" /\ wprev = "right" /\ Held = {}

\* C21: whenever the engine stands between two passes of the chain (or has
\* left its loop), previousstate is the code of the routine it invoked last:
\* 0 for clear() and while it has invoked none.
C21_PrevIsLastIssued ==
    (row = 0 \/ row = Stopped) =>
        previousstate = (IF issued = "none" THEN 0 ELSE RoutineCode(issued))

\* Between two passes, left() having been the last call, with the flags
\* since changed to backward alone.
C21_Witness ==
    /\ row = 0 /\ issued = "left" /\ previousstate = 3
    /\ FlagTuple = <<0, 1, 0, 0>>

\* C22: if from some point on all four flags are 0 and stay 0, then, the
\* engine thread running, from some point on the robot is stopped (the last
\* routine invoked is clear(), or none ever was) and previousstate is 0,
\* and they stay so.
C22_ReleaseStops ==
    <>[](FlagTuple = <<0, 0, 0, 0>>)
        => <>[](previousstate = 0 /\ issued \in {"none", "clear"})

\* With every key released and no exit, the first branch of the chain has
\* just stopped the robot that was going forward.
C22_Witness ==
    /\ FlagTuple = <<0, 0, 0, 0>> /\ exit_program = 0
    /\ row = 0 /\ call = "clear" /\ prevAtCall = 1
    /\ issued = "clear" /\ previousstate = 0

\* C23: once exit has been received both threads leave their loops (the
\* engine after cleanup(), the socket thread by its break), so that the main
\* thread's joins return; no further connection or error is needed for it.
C23_ExitTerminates == (exit_program = 1) ~> (row = Stopped /\ spc = "done")


====
